---- MODULE Spec2Model ----
(***************************************************************************)
(* State-machine model of the vmpay extraction pipeline:                   *)
(*   - the staging-then-MERGE upsert of cloud_function/utils/load_bigquery *)
(*   - the backfill page fetcher, paginator, chunk planner and driver of   *)
(*     extract/extract_historical_cashless.py                              *)
(*   - the paginators of cloud_function/daily_fetch.py and                 *)
(*     extract/extract_cashless.py                                         *)
(***************************************************************************)
EXTENDS Integers, Sequences, FiniteSets, Bags, TLC

(***************************************************************************)
(* Bounds of the model.                                                    *)
(***************************************************************************)
\* Largest number of rows of one upsert batch.
MaxBatch == 2
\* Clock ticks per day: a datetime is a number of ticks since 2024-01-01
\* 00:00 UTC, a date the number of whole days in it.
TicksPerDay == 2
\* A backfill run starts at least one full step after the start of the
\* range and at most this many ticks later.
ExtraTicks == 3
\* generate_date_ranges on its own: the largest tick of start and end, and
\* the largest step_days.
MaxTick == 6
MaxStepDays == 2

\* The most rows the artifacts handed to the consolidator hold together.
MaxRows == 3

\* The most rows a batch with typed cells holds.
MaxTypedRows == 2

\* The most items a list of tags or of barcodes holds.
MaxItems == 3

(***************************************************************************)
(* Values and column names.                                                *)
(*                                                                         *)
(* A cell value is a pair <<type tag, text>>; a column name is the         *)
(* sequence of its words and of the separators "." and "_" between them,   *)
(* so that "transaction.id" and "transaction_id" are different names and   *)
(* sanitizing the first gives the second.                                  *)
(***************************************************************************)
Null == <<"null", "">>
StrV(s) == <<"str", s>>
IntV(s) == <<"int", s>>
FloatV(s) == <<"float", s>>
TsV(s) == <<"ts", s>>

TransactionId == <<"transaction", "_", "id">>
DottedTransactionId == <<"transaction", ".", "id">>
ValueCol == <<"value">>
OccurredAt == <<"occurred", "_", "at">>

\* The table the upsert calls of the model are made for, and its id column
\* as the caller passes it.
TableName == "cashless"
IdColumnArg == TransactionId

\* TABLE_STRING_COLUMNS_CF["cashless"], the entries whose columns occur in
\* the batches of the model.
TABLE_STRING_COLUMNS_CF == {TransactionId, <<"client", "_", "id">>, <<"status">>}

\* TABLE_DATE_COLUMNS_CF["cashless"]
TABLE_DATE_COLUMNS_CF == {OccurredAt}

\* NUMERIC_COLUMNS_CF, likewise.
NUMERIC_COLUMNS_CF == {<<"value">>, <<"quantity">>}

\* str.replace(".", "_") on a name.
SanitizeName(n) == [i \in 1..Len(n) |-> IF n[i] = "." THEN "_" ELSE n[i]]

\* A data frame is [columns |-> sequence of names, rows |-> sequence of
\* rows], a row being the sequence of its cells in column order.
sanitize_columns(d) ==
    [columns |-> [i \in 1..Len(d.columns) |-> SanitizeName(d.columns[i])],
     rows    |-> d.rows]

HasColumn(d, c) == \E i \in 1..Len(d.columns) : d.columns[i] = c

ColumnIndex(d, c) == CHOOSE i \in 1..Len(d.columns) : d.columns[i] = c

\* .fillna("").astype(str) on one cell, without the fillna: a missing value
\* is left as it is.
FillnaAstypeStrKeepNull(v) == IF v = Null THEN Null ELSE StrV(v[2])

\* .fillna("").astype(str) on one cell: a missing value becomes "", any
\* other value its string form.
FillnaAstypeStr(v) == IF v = Null THEN StrV("") ELSE StrV(v[2])

\* pd.to_numeric(errors="ignore") in place of errors="coerce".
ToNumericKeepInvalid(v) == v

\* pd.to_numeric(errors="coerce") on one cell of the kinds the model's
\* batches hold in numeric columns.
ToNumeric(v) ==
    CASE v[1] = "int" -> v
      [] v[1] = "float" -> v
      [] v[1] = "str" /\ v[2] \in {"1", "2", "7"} -> IntV(v[2])
      [] OTHER -> Null

\* The date strings pd.to_datetime can parse, of the model.
ValidDates == {"2024-01-01T10:00:00Z"}

\* pd.to_datetime(errors="coerce") on one cell: a value that is no date
\* becomes NaT.
ToDatetime(v) ==
    CASE v[1] = "ts" -> v
      [] v[1] = "str" /\ v[2] \in ValidDates -> TsV(v[2])
      [] OTHER -> Null

\* Step 2: every date column of the table present in the data frame.
ConvertDateColumns(d) ==
    [columns |-> d.columns,
     rows    |-> [r \in 1..Len(d.rows) |->
                    [i \in 1..Len(d.columns) |->
                        IF d.columns[i] \in TABLE_DATE_COLUMNS_CF
                        THEN ToDatetime(d.rows[r][i])
                        ELSE d.rows[r][i]]]]

\* Step 3 left out.
SkipStringColumns(d) == d

\* Step 3: every designated string column present in the data frame.
ConvertStringColumns(d) ==
    [columns |-> d.columns,
     rows    |-> [r \in 1..Len(d.rows) |->
                    [i \in 1..Len(d.columns) |->
                        IF d.columns[i] \in TABLE_STRING_COLUMNS_CF
                        THEN FillnaAstypeStr(d.rows[r][i])
                        ELSE d.rows[r][i]]]]

\* Step 5: every numeric column that is neither a designated string column
\* nor a date column.
ConvertNumericColumns(d) ==
    [columns |-> d.columns,
     rows    |-> [r \in 1..Len(d.rows) |->
                    [i \in 1..Len(d.columns) |->
                        IF /\ d.columns[i] \in NUMERIC_COLUMNS_CF
                           /\ d.columns[i] \notin TABLE_STRING_COLUMNS_CF
                           /\ d.columns[i] \notin TABLE_DATE_COLUMNS_CF
                        THEN ToNumeric(d.rows[r][i])
                        ELSE d.rows[r][i]]]]

\* The data frame as it stands when the id column is validated.
Preprocess(d) ==
    ConvertNumericColumns(ConvertStringColumns(ConvertDateColumns(sanitize_columns(d))))

\* "if id_column not in df.columns"
IdColumnMissing(d, idc) == ~HasColumn(d, idc)

(***************************************************************************)
(* The warehouse: the final table and the staging table temp_<entity>.     *)
(* A table row is a function from column names to cells; a table is the    *)
(* bag of its rows.                                                        *)
(***************************************************************************)
RowOf(d, r) == [c \in {d.columns[i] : i \in 1..Len(d.columns)} |->
                   d.rows[r][ColumnIndex(d, c)]]

RECURSIVE RowsFrom(_, _)
\* The bag of the rows r, r+1, ... of a data frame.
RowsFrom(d, r) ==
    IF r > Len(d.rows) THEN EmptyBag
    ELSE SetToBag({RowOf(d, r)}) (+) RowsFrom(d, r + 1)

RowsOf(d) == RowsFrom(d, 1)

\* The join predicate ON T.id = S.id: SQL equality, never true of a NULL.
JoinOn(t, s, idc) == t[idc] # Null /\ s[idc] # Null /\ t[idc] = s[idc]

\* The source rows that match target row t.
Matching(t, S, idc) == [s \in {x \in BagToSet(S) : JoinOn(t, x, idc)} |-> S[s]]

\* BigQuery rejects a MERGE in which a target row matches more than one
\* source row.
MergeRejected(T, S, idc) ==
    \E t \in BagToSet(T) : BagCardinality(Matching(t, S, idc)) > 1

\* WHEN MATCHED THEN UPDATE SET every non-id column of the batch.
UpdateRow(t, s, idc) ==
    [c \in DOMAIN t |-> IF c \in DOMAIN s /\ c # idc THEN s[c] ELSE t[c]]

\* A target row after the MERGE: updated from the source row that matches
\* it, or left as it is when none does.
MergeMatched(t, S, idc) ==
    IF BagToSet(Matching(t, S, idc)) = {} THEN t
    ELSE UpdateRow(t, CHOOSE s \in BagToSet(Matching(t, S, idc)) : TRUE, idc)

\* WHEN NOT MATCHED THEN INSERT: the source rows that match no target row.
NotMatched(T, S, idc) ==
    [s \in {x \in BagToSet(S) : \A t \in BagToSet(T) : ~JoinOn(t, x, idc)} |-> S[s]]

\* A MERGE that inserts every source row, matched or not.
MergeResultInsertAll(T, S, idc) == T (+) S

\* The final table after a MERGE that is not rejected.
MergeResult(T, S, idc) ==
    BagOfAll(LAMBDA t : MergeMatched(t, S, idc), T) (+) NotMatched(T, S, idc)

(***************************************************************************)
(* upload_dataframe_to_bigquery as a sequence of steps on a call record    *)
(*   [df, ops, err, finalExists, finalSchema, finalRows, tempExists,       *)
(*    tempRows]:                                                           *)
(* the data frame, the warehouse operations performed so far, the          *)
(* exception raised ("none" while the call runs) and the warehouse.        *)
(***************************************************************************)
(***************************************************************************)
(* Schema inference: build_bq_schema_cf of the cloud function and          *)
(* build_bq_schema of the local loader.  A column's content is its pandas  *)
(* dtype and, for an object column, the shape of its values.               *)
(***************************************************************************)
Contents ==
    {<<"int64", "">>, <<"float64", "">>, <<"bool", "">>, <<"datetime64", "">>,
     <<"object", "digits">>, <<"object", "iso">>, <<"object", "text">>,
     <<"object", "allnull">>}

\* The pandas dtype tests.
is_integer_dtype(c) == c[1] = "int64"
is_float_dtype(c) == c[1] = "float64"
is_bool_dtype(c) == c[1] = "bool"
is_datetime64_any_dtype(c) == c[1] = "datetime64"

\* df[col].dropna().astype(str).str.match(ISO pattern).all()
\*   and not df[col].dropna().empty
LooksLikeIsoTimestamps(c) == c = <<"object", "iso">>

\* build_bq_schema_cf with the dtype of the column looked at before the
\* string set of the table.
SchemaSniffFirstCF(col, strings, dates, numerics, c) ==
    IF is_integer_dtype(c) THEN "INTEGER"
    ELSE IF is_float_dtype(c) THEN "FLOAT"
    ELSE IF is_bool_dtype(c) THEN "BOOLEAN"
    ELSE IF is_datetime64_any_dtype(c) THEN "TIMESTAMP"
    ELSE "STRING"

\* The field type build_bq_schema_cf gives a column.
build_bq_schema_cf(col, strings, dates, numerics, c) ==
    IF col \in strings THEN "STRING"
    ELSE IF col \in dates
         THEN IF is_datetime64_any_dtype(c) THEN "TIMESTAMP" ELSE "STRING"
    ELSE IF col \in numerics
         THEN IF is_integer_dtype(c) THEN "INTEGER"
              ELSE IF is_float_dtype(c) THEN "FLOAT"
              ELSE "FLOAT"
    ELSE IF is_integer_dtype(c) THEN "INTEGER"
    ELSE IF is_float_dtype(c) THEN "FLOAT"
    ELSE IF is_bool_dtype(c) THEN "BOOLEAN"
    ELSE IF is_datetime64_any_dtype(c) THEN "TIMESTAMP"
    ELSE "STRING"

\* The field type build_bq_schema gives a column.
build_bq_schema(col, strings, numerics, c) ==
    IF col \in strings THEN "STRING"
    ELSE IF col \in numerics THEN "FLOAT64"
    ELSE IF is_integer_dtype(c) THEN "INTEGER"
    ELSE IF is_float_dtype(c) THEN "FLOAT64"
    ELSE IF is_bool_dtype(c) THEN "BOOLEAN"
    ELSE IF is_datetime64_any_dtype(c) \/ LooksLikeIsoTimestamps(c) THEN "TIMESTAMP"
    ELSE "STRING"

\* The dtype of column i of a preprocessed frame: a date column is
\* datetime64 whatever pd.to_datetime made of its values; a column of whole
\* numbers is int64; a column of numbers with a fractional or a missing
\* value is float64; any other column is object.
DtypeOf(d, i) ==
    LET tags == {d.rows[r][i][1] : r \in 1..Len(d.rows)}
        converted == /\ d.columns[i] \in NUMERIC_COLUMNS_CF
                     /\ d.columns[i] \notin TABLE_STRING_COLUMNS_CF
    IN  IF d.columns[i] \in TABLE_STRING_COLUMNS_CF THEN <<"object", "text">>
        ELSE IF d.columns[i] \in TABLE_DATE_COLUMNS_CF THEN <<"datetime64", "">>
        ELSE IF tags \subseteq {"int"} /\ (tags # {} \/ converted)
             THEN <<"int64", "">>
        ELSE IF /\ tags \subseteq {"int", "float", "null"}
                /\ (converted \/ tags \cap {"int", "float"} # {})
             THEN <<"float64", "">>
        ELSE IF tags \subseteq {"ts", "null"} /\ "ts" \in tags
             THEN <<"datetime64", "">>
        ELSE IF tags \subseteq {"null"} THEN <<"object", "allnull">>
        ELSE <<"object", "text">>

\* bq_schema = build_bq_schema_cf(df, table_name): the field type of every
\* column of the frame.
SchemaOf(d) ==
    [col \in {d.columns[i] : i \in 1..Len(d.columns)} |->
        build_bq_schema_cf(col, TABLE_STRING_COLUMNS_CF, TABLE_DATE_COLUMNS_CF,
                           NUMERIC_COLUMNS_CF, DtypeOf(d, ColumnIndex(d, col)))]

\* A value of the staging column's type can be stored in the final column:
\* the types are the same, or an INT64 goes to a FLOAT64 column.
Assignable(from, to) == from = to \/ (from = "INTEGER" /\ to = "FLOAT")

\* The MERGE names a column the final table lacks, or assigns a column a
\* value its type cannot take.
SchemaMismatch(final, staging) ==
    \E col \in DOMAIN staging :
        \/ col \notin DOMAIN final
        \/ ~Assignable(staging[col], final[col])

Running(c) == c.err = "none"

\* Steps 1 to 5: the call record of a call that was given batch d.
BeginCall(d, fe, fs, fr, te, tr) ==
    [df |-> Preprocess(d), ops |-> <<>>, err |-> "none",
     finalExists |-> fe, finalSchema |-> fs, finalRows |-> fr,
     tempExists |-> te, tempRows |-> tr]

\* "if id_column not in df.columns: raise ValueError"
ValidateIdColumn(c, idc) ==
    IF Running(c) /\ IdColumnMissing(c.df, idc)
    THEN [c EXCEPT !.err = "ValueError"]
    ELSE c

\* create_table_if_not_exists with the table made anew on every call.
create_or_replace_table(c) ==
    IF ~Running(c) THEN c
    ELSE [c EXCEPT !.ops = @ \o <<"get_table", "create_table">>,
                   !.finalExists = TRUE,
                   !.finalSchema = SchemaOf(c.df),
                   !.finalRows = EmptyBag]

\* get_table, and create_table with the schema of the batch on NotFound.
create_table_if_not_exists(c) ==
    IF ~Running(c) THEN c
    ELSE IF c.finalExists
         THEN [c EXCEPT !.ops = Append(@, "get_table")]
         ELSE [c EXCEPT !.ops = @ \o <<"get_table", "create_table">>,
                        !.finalExists = TRUE,
                        !.finalSchema = SchemaOf(c.df),
                        !.finalRows = EmptyBag]

\* load_table_from_dataframe with WRITE_TRUNCATE.
LoadStaging(c) ==
    IF ~Running(c) THEN c
    ELSE [c EXCEPT !.ops = Append(@, "load"),
                   !.tempExists = TRUE,
                   !.tempRows = RowsOf(c.df)]

\* client.query(merge_sql).result(); an exception is re-raised.
ExecuteMerge(c, idc) ==
    IF ~Running(c) THEN c
    ELSE IF \/ SchemaMismatch(c.finalSchema, SchemaOf(c.df))
            \/ MergeRejected(c.finalRows, c.tempRows, idc)
         THEN [c EXCEPT !.ops = Append(@, "merge"), !.err = "MergeError"]
         ELSE [c EXCEPT !.ops = Append(@, "merge"),
                        !.finalRows = MergeResult(@, c.tempRows, idc)]

\* client.delete_table(temp_table_id, not_found_ok=True)
DeleteStaging(c) ==
    IF ~Running(c) THEN c
    ELSE [c EXCEPT !.ops = Append(@, "delete_table"),
                   !.tempExists = FALSE,
                   !.tempRows = EmptyBag]

\* The steps with the final table ensured before the id column is validated.
UploadStepsEnsureFirst(c, idc) ==
    DeleteStaging(ExecuteMerge(LoadStaging(
        ValidateIdColumn(create_table_if_not_exists(c), idc)), idc))

\* The steps after preprocessing, in the order of the code.
UploadSteps(c, idc) ==
    DeleteStaging(ExecuteMerge(LoadStaging(
        create_table_if_not_exists(ValidateIdColumn(c, idc))), idc))

(***************************************************************************)
(* The API as the fetchers see it.  A window holds n records, numbered     *)
(* 1..n; page p of the window is records (p-1)*per_page+1 .. p*per_page.   *)
(***************************************************************************)
PER_PAGE == 100
MAX_ATTEMPTS == 3
BACKOFF_BASE == 2
PAGE_DELAY == 1
STEP_DAYS == 7
BACKFILL_START == 0

Min(a, b) == IF a < b THEN a ELSE b

ServerPage(n, p) ==
    [i \in 1..(Min(p * PER_PAGE, n) - Min((p - 1) * PER_PAGE, n)) |->
        (p - 1) * PER_PAGE + i]

\* The record counts of the windows of the model: an empty window, a short
\* page, exactly one full page, and two full pages and a half.
RecordCounts == {0, PER_PAGE \div 2, PER_PAGE, 2 * PER_PAGE + PER_PAGE \div 2}

\* What one requests.get can meet: a 2xx answer with a JSON list, a network
\* error or a 5xx status, a 4xx status, or a 2xx answer whose body is not
\* JSON.
RequestFailures == {"transient", "http4xx", "badjson"}

\* Events of the logs: a request with its outcome, a sleep with its
\* seconds, a page handed to the pagination loop with its number and size.
GetEvent(outcome) == <<"get", outcome, 0, 0>>
SleepEvent(secs) == <<"sleep", "", secs, 0>>
PageEvent(p, size) == <<"page", "", p, size>>

\* time.sleep(2**attempt) with the exponent taken one too high.
BackoffFromTwo(a) == BACKOFF_BASE ^ (a + 1)

\* time.sleep(2**attempt)
Backoff(a) == BACKOFF_BASE ^ a

(***************************************************************************)
(* generate_date_ranges and the artifact files.                            *)
(***************************************************************************)
\* timedelta(days=step_days)
Days(n) == n * TicksPerDay

\* datetime.date()
DateOf(t) == t \div TicksPerDay

\* "yield current, min(current + timedelta(days=step_days), end)" with the
\* window not cut at end.
YieldedWindowUncut(current, end, step) == <<current, current + Days(step)>>

\* "yield current, min(current + timedelta(days=step_days), end)"
YieldedWindow(current, end, step) == <<current, Min(current + Days(step), end)>>

\* f"{OUTPUT_DIR}/cashless_{start_date.date()}_to_{end_date.date()}.csv"
FileName(w) == <<DateOf(w[1]), DateOf(w[2])>>

\* os.path.exists(filename), never true.
FileNeverExists(arts, w) == FALSE

\* os.path.exists(filename)
FileExists(arts, w) == FileName(w) \in DOMAIN arts

\* save_data_as_csv: nothing is written for an empty list.
save_data_as_csv(arts, data, w) ==
    IF data = <<>> THEN arts
    ELSE [f \in DOMAIN arts \cup {FileName(w)} |->
            IF f = FileName(w) THEN data ELSE arts[f]]

\* The clock readings at which a backfill run can start.
FirstNow == BACKFILL_START + Days(STEP_DAYS)
NowRange == FirstNow..(FirstNow + ExtraTicks)

(***************************************************************************)
(* State.                                                                  *)
(***************************************************************************)
VARIABLES
    \* upload_dataframe_to_bigquery: how the last call ended, the batch it
    \* was given, the data frame after preprocessing, the warehouse
    \* operations it performed and the exception it raised.
    upPc, rawDf, df, upOps, upErr,
    \* The warehouse.
    finalExists, finalSchema, finalRows, tempExists, tempRows,
    \* Whether the last call was given the same batch as the call before it.
    repeated,
    \* The page fetcher: the attempt counter of the call in progress, the
    \* requests and sleeps of the last call, and how it stands.
    attempt, fetchLog, fetchPc,
    \* The pagination loop: which loop it is, how it stands, the record count
    \* of the window it fetches, its page counter and list, and the pages it
    \* was handed and the sleeps it took.
    pagMode, pagPc, serverN, page, all_data, pagLog,
    \* generate_date_ranges: the generator's position and locals, and the
    \* windows it has yielded.
    genPc, gStart, gCurrent, gEnd, gStep, windows,
    \* The backfill driver: the clock reading taken as end of the range, the
    \* position of the run, the window in hand, what became of the chunks of
    \* the run, and the artifact files.
    now, bfPc, curWin, chunkLog, artifacts,
    \* For each artifact file, the window whose records were written to it.
    savedWindow,
    \* The consolidator: how its last run ended, the artifact files it read,
    \* the rows after sort_values, whether the output file exists and its
    \* rows, and the count of dropped duplicates it printed.
    mgPc, csv_files, sortedRows, outExists, outRows, dropped,
    \* The last schema built: by which builder, for which column under
    \* which configuration of the table, on which content, and the type it
    \* gave the column.
    scBuilder, scColumn, scStrings, scDates, scNumerics, scContent, scType,
    \* The daily run: its position, the date of the request, the clock
    \* reading, the window, the index of the auxiliary table in hand, what
    \* the run did, and the status the entry point returned.
    dyPc, date_arg, dyNow, dyStart, dyEnd, auxIdx, dyLog, runStatus,
    \* The preprocessing of a multi-valued cell: whether one was put through
    \* it, the table and the column of the cell, the cell as the API gave
    \* it, and the cell as the frame holds it when it is loaded.
    tgPc, tgTable, tgColumn, tgRaw, tgOut

upVars == <<upPc, rawDf, df, upOps, upErr, finalExists, finalSchema, finalRows,
            tempExists, tempRows, repeated>>
fetchVars == <<attempt, fetchLog, fetchPc>>
pagVars == <<pagMode, pagPc, serverN, page, all_data, pagLog>>
genVars == <<genPc, gStart, gCurrent, gEnd, gStep, windows>>
bfVars == <<now, bfPc, curWin, chunkLog, artifacts, savedWindow>>

mgVars == <<mgPc, csv_files, sortedRows, outExists, outRows, dropped>>

scVars == <<scBuilder, scColumn, scStrings, scDates, scNumerics, scContent, scType>>
dyVars == <<dyPc, date_arg, dyNow, dyStart, dyEnd, auxIdx, dyLog, runStatus>>

tgVars == <<tgPc, tgTable, tgColumn, tgRaw, tgOut>>

vars == <<upVars, fetchVars, pagVars, genVars, bfVars, mgVars, scVars, dyVars,
          tgVars>>

EmptyDf == [columns |-> <<>>, rows |-> <<>>]

UpInit ==
    /\ upPc = "idle"
    /\ rawDf = EmptyDf
    /\ df = EmptyDf
    /\ upOps = <<>>
    /\ upErr = "none"
    /\ finalExists = FALSE
    /\ finalSchema = <<>>
    /\ finalRows = EmptyBag
    /\ tempExists = FALSE
    /\ tempRows = EmptyBag
    /\ repeated = FALSE

PagInit ==
    /\ attempt = 0
    /\ fetchLog = <<>>
    /\ fetchPc = "idle"
    /\ pagMode = "backfill"
    /\ pagPc = "idle"
    /\ serverN = 0
    /\ page = 1
    /\ all_data = <<>>
    /\ pagLog = <<>>

GenInit ==
    /\ genPc = "none"
    /\ gStart = 0
    /\ gCurrent = 0
    /\ gEnd = 0
    /\ gStep = 1
    /\ windows = <<>>

BfInit ==
    /\ now = FirstNow
    /\ bfPc = "idle"
    /\ curWin = <<0, 0>>
    /\ chunkLog = <<>>
    /\ artifacts = <<>>
    /\ savedWindow = <<>>

MgInit ==
    /\ mgPc = "idle"
    /\ csv_files = <<>>
    /\ sortedRows = <<>>
    /\ outExists = FALSE
    /\ outRows = <<>>
    /\ dropped = 0

ScInit ==
    /\ scBuilder = "none"
    /\ scColumn = <<>>
    /\ scStrings = {}
    /\ scDates = {}
    /\ scNumerics = {}
    /\ scContent = <<"object", "allnull">>
    /\ scType = "none"

DyInit ==
    /\ dyPc = "idle"
    /\ date_arg = <<"none", 0>>
    /\ dyNow = FirstNow
    /\ dyStart = 0
    /\ dyEnd = 0
    /\ auxIdx = 0
    /\ dyLog = <<>>
    /\ runStatus = 0

\* A cell: missing, a string given by its characters, or a list of items.
NullCell == [kind |-> "null", text |-> <<>>, items |-> <<>>]
StrCell(t) == [kind |-> "str", text |-> t, items |-> <<>>]
ListCell(l) == [kind |-> "list", text |-> <<>>, items |-> l]

TgInit ==
    /\ tgPc = "idle"
    /\ tgTable = "products"
    /\ tgColumn = "tags"
    /\ tgRaw = NullCell
    /\ tgOut = NullCell

Init ==
    UpInit /\ PagInit /\ GenInit /\ BfInit /\ MgInit /\ ScInit /\ DyInit /\ TgInit

(***************************************************************************)
(* The batches the callers hand to the upsert.                             *)
(***************************************************************************)
RawIds == {Null, IntV("7")}
RawValues == {IntV("1"), IntV("2")}

RowsOfLayout(l) ==
    IF Len(l) = 2 THEN {<<i, v>> : i \in RawIds, v \in RawValues}
                  ELSE {<<v>> : v \in RawValues}

Layouts == {<<TransactionId, ValueCol>>, <<DottedTransactionId, ValueCol>>,
            <<ValueCol>>}

Batches ==
    UNION {{[columns |-> l, rows |-> rs] :
               rs \in UNION {[1..n -> RowsOfLayout(l)] : n \in 0..MaxBatch}} :
           l \in Layouts}

(***************************************************************************)
(* Actions of the upsert.                                                  *)
(***************************************************************************)
\* One call of upload_dataframe_to_bigquery(d, "cashless", "transaction_id").
UploadCall(d) ==
    \E c \in {UploadSteps(BeginCall(d, finalExists, finalSchema, finalRows,
                                     tempExists, tempRows),
                           SanitizeName(IdColumnArg))} :
        /\ rawDf' = d
        /\ df' = c.df
        /\ upOps' = c.ops
        /\ upErr' = c.err
        /\ upPc' = IF Running(c) THEN "returned" ELSE "raised"
        /\ finalExists' = c.finalExists
        /\ finalSchema' = c.finalSchema
        /\ finalRows' = c.finalRows
        /\ tempExists' = c.tempExists
        /\ tempRows' = c.tempRows

\* A caller hands a batch to the upsert.
upload_dataframe_to_bigquery ==
    /\ upPc = "idle"
    /\ \E d \in Batches : UploadCall(d)
    /\ repeated' = FALSE

\* The caller hands the same batch to the upsert once more.
upload_same_batch_again ==
    /\ upPc # "idle"
    /\ UploadCall(rawDf)
    /\ repeated' = TRUE

\* The caller returns and its batch is dropped.
caller_returns ==
    /\ upPc # "idle"
    /\ upPc' = "idle"
    /\ rawDf' = EmptyDf
    /\ df' = EmptyDf
    /\ upOps' = <<>>
    /\ upErr' = "none"
    /\ repeated' = FALSE
    /\ UNCHANGED <<finalExists, finalSchema, finalRows, tempExists, tempRows>>

NextUpsert ==
    /\ \/ upload_dataframe_to_bigquery
       \/ upload_same_batch_again
       \/ caller_returns
    /\ UNCHANGED <<fetchVars, pagVars, genVars, bfVars, mgVars, scVars, dyVars, tgVars>>

SpecUpsert == Init /\ [][NextUpsert]_vars

(***************************************************************************)
(* The upsert on batches of the API's cashless records as json_normalize   *)
(* hands them over: the id, the value and the time of each record, where   *)
(* the value can be a whole number, a fractional number, text that is no   *)
(* number, or missing, and the time a date or text that is no date.        *)
(***************************************************************************)
TypedIds == <<"7", "8", "9", "10">>
InvalidText == "x"

\* The value and the time of a record.
TypedCells ==
    {<<IntV("1"), StrV("2024-01-01T10:00:00Z")>>,
     <<FloatV("1.5"), StrV("2024-01-01T10:00:00Z")>>,
     <<Null, StrV("2024-01-01T10:00:00Z")>>,
     <<IntV("1"), StrV(InvalidText)>>,
     <<StrV(InvalidText), StrV(InvalidText)>>}

\* Record i of a batch has the i-th id.
TypedBatches ==
    UNION {{[columns |-> <<TransactionId, ValueCol, OccurredAt>>,
             rows    |-> [i \in 1..n |-> <<IntV(TypedIds[i]), cs[i][1], cs[i][2]>>]] :
               cs \in [1..n -> TypedCells]} :
           n \in 1..MaxTypedRows}

\* The daily run hands a batch of records to the upsert.
upload_cashless_records ==
    /\ upPc = "idle"
    /\ \E d \in TypedBatches : UploadCall(d)
    /\ repeated' = FALSE

NextUpsertTyped ==
    /\ \/ upload_cashless_records
       \/ caller_returns
    /\ UNCHANGED <<fetchVars, pagVars, genVars, bfVars, mgVars, scVars, dyVars, tgVars>>

SpecUpsertTyped == Init /\ [][NextUpsertTyped]_vars

(***************************************************************************)
(* Claims about the upsert, checked under SpecUpsert.                      *)
(***************************************************************************)
Range(f) == {f[i] : i \in DOMAIN f}

\* The rows of table T whose id column holds the value v.
RowsWithId(T, v) == [t \in {x \in BagToSet(T) : x[SanitizeName(IdColumnArg)] = v} |-> T[t]]

\* C1: after any sequence of upsert calls that starts from an empty final
\* table, the final table holds at most one row per value of the id column,
\* whatever ids the batches carry (repeated ids within a batch included).
C1_AtMostOneRowPerId ==
    \A t \in BagToSet(finalRows) :
        BagCardinality(RowsWithId(finalRows, t[SanitizeName(IdColumnArg)])) <= 1

\* C2: a call of the upsert that is given the same batch as the call right
\* before it leaves the final table exactly as that call left it: the same
\* rows with the same values, each as many times as before.
C2_UpsertIdempotent ==
    [][repeated' => (finalRows' = finalRows /\ finalExists' = finalExists)]_vars

\* A second call with the same batch has returned after its MERGE, and the
\* final table holds a row whose id was missing in the batch.
C2_Witness ==
    /\ repeated
    /\ upPc = "returned"
    /\ "merge" \in Range(upOps)
    /\ \E t \in BagToSet(finalRows) : t[SanitizeName(IdColumnArg)] = StrV("")
    /\ \E t \in BagToSet(finalRows) : t[SanitizeName(IdColumnArg)] = StrV("7")

\* C3: a call of the upsert that has loaded its staging table never ends,
\* by returning or by raising, with the staging table still in existence.
C3_StagingDeletedAtEnd ==
    (upPc \in {"returned", "raised"} /\ "load" \in Range(upOps)) => ~tempExists

\* The batch of the last call has no column whose sanitized name is the
\* configured id column.
BatchLacksIdColumn(d) ==
    \A i \in 1..Len(d.columns) :
        SanitizeName(d.columns[i]) # SanitizeName(IdColumnArg)

\* C4: a call whose batch lacks the configured id column after sanitization
\* raises ValueError having performed no warehouse operation, and leaves
\* the final table and the staging table as they were.
C4_MissingIdNoWarehouseOp ==
    [][(upPc' # "idle" /\ BatchLacksIdColumn(rawDf'))
         => /\ upPc' = "raised"
            /\ upErr' = "ValueError"
            /\ upOps' = <<>>
            /\ UNCHANGED <<finalExists, finalSchema, finalRows,
                           tempExists, tempRows>>]_vars

\* A call was refused for its missing id column while the final table
\* held rows and a staging table left by an earlier call existed.
C4_Witness ==
    /\ upPc = "raised"
    /\ upErr = "ValueError"
    /\ Len(rawDf.rows) > 0
    /\ finalExists
    /\ finalRows # EmptyBag
    /\ tempExists

\* A batch whose id column arrived with a dot in its name passed the
\* validation and was merged.
DottedIdAccepted ==
    /\ upPc = "returned"
    /\ rawDf.columns = <<DottedTransactionId, ValueCol>>
    /\ Len(rawDf.rows) > 0

(***************************************************************************)
(* The page fetchers and the pagination loops.                             *)
(*   "backfill": extract_range over fetch_cashless_data, which retries     *)
(*   "daily":    daily_fetch.fetch_cashless_data over fetch_from_endpoint  *)
(*   "cli":      extract_cashless_range over fetch_from_endpoint           *)
(***************************************************************************)
PagModes == {"backfill", "daily", "cli"}

PagEnded == pagPc \in {"idle", "returned", "raised"}

\* The log of the fetch call in progress: a call that follows a finished
\* one starts a log of its own.
CallLog == IF fetchPc = "calling" THEN fetchLog ELSE <<>>

\* The locals of a pagination loop that starts on a window of n records.
StartPagination(mode, n) ==
    /\ pagMode' = mode
    /\ pagPc' = "running"
    /\ serverN' = n
    /\ page' = 1
    /\ all_data' = <<>>
    /\ pagLog' = <<>>
    /\ attempt' = 0
    /\ fetchLog' = <<>>
    /\ fetchPc' = "calling"

\* A pagination loop is called on its own, on a window of n records.
paginate_call ==
    /\ bfPc = "idle"
    /\ PagEnded
    /\ \E mode \in PagModes, n \in RecordCounts : StartPagination(mode, n)
    /\ UNCHANGED <<upVars, genVars, bfVars>>

\* The sleep between two pages: extract_range and daily_fetch sleep,
\* extract_cashless_range does not.
PageSleep(mode) == IF mode = "cli" THEN <<>> ELSE <<SleepEvent(PAGE_DELAY)>>

\* all_data = data in place of all_data.extend(data)
ExtendReplaces(all, data) == data

\* all_data.extend(data)
Extend(all, data) == all \o data

\* "if len(data) < 100: break", with <= in place of <
ShortPageOrFull(data) == Len(data) <= PER_PAGE

\* "if len(data) < 100: break"
ShortPage(data) == Len(data) < PER_PAGE

\* A request succeeds: the fetcher returns the page and the body of the
\* pagination loop runs on it.
request_ok ==
    /\ pagPc = "running"
    /\ attempt' = 0
    /\ fetchLog' = Append(CallLog, GetEvent("ok"))
    /\ fetchPc' = "returned"
    /\ \E data \in {ServerPage(serverN, page)} :
         IF data = <<>>
         THEN /\ pagPc' = "returned"
              /\ pagLog' = Append(pagLog, PageEvent(page, 0))
              /\ UNCHANGED <<page, all_data>>
         ELSE /\ all_data' = Extend(all_data, data)
              /\ IF ShortPage(data)
                 THEN /\ pagPc' = "returned"
                      /\ pagLog' = Append(pagLog, PageEvent(page, Len(data)))
                      /\ page' = page
                 ELSE /\ pagPc' = "running"
                      /\ pagLog' = Append(pagLog, PageEvent(page, Len(data)))
                                      \o PageSleep(pagMode)
                      /\ page' = page + 1
    /\ UNCHANGED <<pagMode, serverN, upVars, genVars, bfVars>>

\* "except RequestException": the failures the retry loop catches.  An HTTP
\* error status of either class raises HTTPError; a body that is not JSON
\* raises requests.exceptions.JSONDecodeError, a RequestException, from
\* requests 2.27 on.
Caught == {"transient", "http4xx", "badjson"}

\* A request of fetch_cashless_data raises a RequestException: the attempt
\* is reported, the fetcher sleeps 2**attempt seconds, and after the third
\* attempt raises RuntimeError.
request_fails ==
    /\ pagPc = "running"
    /\ pagMode = "backfill"
    /\ \E kind \in Caught :
         fetchLog' = CallLog \o <<GetEvent(kind), SleepEvent(Backoff(attempt))>>
    /\ IF attempt + 1 < MAX_ATTEMPTS
       THEN /\ attempt' = attempt + 1
            /\ fetchPc' = "calling"
            /\ pagPc' = "running"
       ELSE /\ attempt' = 0
            /\ fetchPc' = "raised"
            /\ pagPc' = "raised"
    /\ UNCHANGED <<pagMode, serverN, page, all_data, pagLog, upVars, genVars, bfVars>>

\* A request of fetch_cashless_data raises an exception the retry loop does
\* not catch: with requests older than 2.27, response.json() raises a plain
\* ValueError on a body that is not JSON.
request_raises ==
    /\ pagPc = "running"
    /\ pagMode = "backfill"
    /\ fetchLog' = Append(CallLog, GetEvent("badjson"))
    /\ attempt' = 0
    /\ fetchPc' = "raised"
    /\ pagPc' = "raised"
    /\ UNCHANGED <<pagMode, serverN, page, all_data, pagLog, upVars, genVars, bfVars>>

\* A request of fetch_from_endpoint fails: raise_for_status or
\* response.json() raises and nothing catches it.
endpoint_request_fails ==
    /\ pagPc = "running"
    /\ pagMode # "backfill"
    /\ \E kind \in RequestFailures :
         fetchLog' = Append(CallLog, GetEvent(kind))
    /\ attempt' = 0
    /\ fetchPc' = "raised"
    /\ pagPc' = "raised"
    /\ UNCHANGED <<pagMode, serverN, page, all_data, pagLog, upVars, genVars, bfVars>>

NextPaginate ==
    /\ \/ paginate_call
       \/ request_ok
       \/ request_fails
       \/ request_raises
       \/ endpoint_request_fails
    /\ UNCHANGED <<mgVars, scVars, dyVars, tgVars>>

SpecPaginate == Init /\ [][NextPaginate]_vars

(***************************************************************************)
(* Claims about the page fetcher and the pagination loops, checked under   *)
(* SpecPaginate.                                                           *)
(***************************************************************************)
IsGet(e) == e[1] = "get"
IsSleep(e) == e[1] = "sleep"
IsPage(e) == e[1] = "page"

Gets(log) == SelectSeq(log, IsGet)
SleepSecs(log) == [i \in 1..Len(SelectSeq(log, IsSleep)) |-> SelectSeq(log, IsSleep)[i][3]]
Pages(log) == SelectSeq(log, IsPage)

\* Every request of the log failed transiently.
AllTransient(log) == \A i \in 1..Len(log) : IsGet(log[i]) => log[i][2] = "transient"

\* Some request of the log met a fatal condition: a 4xx status or a body
\* that is not JSON.
FatalSeen(log) ==
    \E i \in 1..Len(log) : IsGet(log[i]) /\ log[i][2] \in {"http4xx", "badjson"}

\* C5, as claimed: a call of the backfill fetcher all of whose requests
\* failed transiently, once it has raised, has issued exactly 3 requests
\* and slept 1, 2 and 4 seconds, each sleep between two consecutive
\* requests and none after the last request.
C5_SleepsBetweenAttempts ==
    (pagMode = "backfill" /\ fetchPc = "raised" /\ AllTransient(fetchLog))
    => /\ Len(Gets(fetchLog)) = 3
       /\ SleepSecs(fetchLog) = <<1, 2, 4>>
       /\ \A i \in 1..Len(fetchLog) :
            IsSleep(fetchLog[i])
            => /\ 1 < i /\ i < Len(fetchLog)
               /\ IsGet(fetchLog[i - 1])
               /\ IsGet(fetchLog[i + 1])

\* The requests and sleeps of a fetch call whose three requests all fail
\* transiently.
ExhaustedLog ==
    <<GetEvent("transient"), SleepEvent(1),
      GetEvent("transient"), SleepEvent(2),
      GetEvent("transient"), SleepEvent(4)>>

\* C5, amended: while every request of a call of the backfill fetcher has
\* failed transiently, the call has issued k <= 3 requests, each followed
\* at once by a sleep, of 1, 2 and 4 seconds in that order; it has raised
\* exactly when k = 3, so the 4 second sleep comes after the last request
\* and before the error.
C5_SleepAfterEachAttempt ==
    (pagMode = "backfill" /\ fetchLog # <<>> /\ AllTransient(fetchLog))
    => \E k \in 1..3 :
          /\ fetchLog = SubSeq(ExhaustedLog, 1, 2 * k)
          /\ (fetchPc = "raised") <=> (k = 3)

\* The backfill fetcher has raised after three transient failures.
C5_Witness ==
    /\ pagMode = "backfill"
    /\ fetchPc = "raised"
    /\ pagPc = "raised"
    /\ AllTransient(fetchLog)
    /\ Len(Gets(fetchLog)) = 3

\* C6: a call of the backfill fetcher one of whose requests met a fatal
\* condition has issued that one request only, has not slept, and has
\* raised.
C6_FatalNeverRetried ==
    (pagMode = "backfill" /\ FatalSeen(fetchLog))
    => (Len(fetchLog) = 1 /\ fetchPc = "raised")

\* The page events of a window of n records fetched to its end: full pages,
\* then one page that is short or empty.
PagesOfWindow(n) ==
    [p \in 1..(n \div 100 + 1) |->
        PageEvent(p, IF p <= n \div 100 THEN 100 ELSE n - 100 * (n \div 100))]

\* C7: a pagination loop that has returned from a window of N records was
\* handed exactly floor(N/100)+1 pages, all of 100 records but the last,
\* which is shorter or empty, and returns exactly the N records.
C7_PaginationTerminates ==
    pagPc = "returned"
    => /\ Pages(pagLog) = PagesOfWindow(serverN)
       /\ all_data = [i \in 1..serverN |-> i]

\* A window of 250 records was fetched in pages of 100, 100 and 50.
C7_Witness ==
    /\ pagPc = "returned"
    /\ serverN = 250
    /\ Pages(pagLog) = <<PageEvent(1, 100), PageEvent(2, 100), PageEvent(3, 50)>>
    /\ Len(all_data) = 250

RECURSIVE ConcatPages(_, _)
\* The records of the pages of the log, from page event i on, in order.
ConcatPages(P, i) ==
    IF i > Len(P) THEN <<>>
    ELSE SubSeq(ServerPage(serverN, P[i][3]), 1, P[i][4]) \o ConcatPages(P, i + 1)

RECURSIVE SumSizes(_, _)
SumSizes(P, i) == IF i > Len(P) THEN 0 ELSE P[i][4] + SumSizes(P, i + 1)

\* C8: the pages a pagination loop has been handed are pages 1, 2, ..., k
\* in that order, each once, and its list is those pages one after the
\* other, as long as the sum of their sizes.
C8_PagesInOrderOnce ==
    /\ \A i \in 1..Len(Pages(pagLog)) : Pages(pagLog)[i][3] = i
    /\ all_data = ConcatPages(Pages(pagLog), 1)
    /\ Len(all_data) = SumSizes(Pages(pagLog), 1)

\* extract_cashless_range has been handed three pages.
C8_Witness ==
    /\ pagMode = "cli"
    /\ pagPc = "returned"
    /\ Len(Pages(pagLog)) = 3
    /\ Len(all_data) = 250

(***************************************************************************)
(* generate_date_ranges, a generator: the body runs from one yield to the  *)
(* next each time the consumer asks for a window.                          *)
(***************************************************************************)
\* generate_date_ranges(start, end, step_days) is called: nothing of the
\* body runs yet.
NewGenerator(start, end, step) ==
    /\ genPc' = "fresh"
    /\ gStart' = start
    /\ gCurrent' = start
    /\ gEnd' = end
    /\ gStep' = step
    /\ windows' = <<>>

\* generate_date_ranges is called on its own.
plan_call ==
    /\ bfPc = "idle"
    /\ genPc \in {"none", "exhausted"}
    /\ \E start \in 0..MaxTick, end \in 0..MaxTick, step \in 1..MaxStepDays :
         NewGenerator(start, end, step)
    /\ UNCHANGED <<upVars, fetchVars, pagVars, bfVars>>

\* The consumer asks for the next window: "current = start" on the first
\* request and "current += timedelta(days=step_days)" on the later ones,
\* then the loop test, then the yield or the end of the generator.  In a
\* backfill run the consumer is the for loop of the driver.
generator_next ==
    /\ genPc \in {"fresh", "suspended"}
    /\ bfPc \in {"idle", "loop"}
    /\ \E cur \in {IF genPc = "fresh" THEN gCurrent ELSE gCurrent + Days(gStep)} :
         /\ gCurrent' = cur
         /\ IF cur < gEnd
            THEN /\ genPc' = "suspended"
                 /\ windows' = Append(windows, YieldedWindow(cur, gEnd, gStep))
                 /\ curWin' = YieldedWindow(cur, gEnd, gStep)
                 /\ bfPc' = IF bfPc = "loop" THEN "chunk" ELSE bfPc
            ELSE /\ genPc' = "exhausted"
                 /\ bfPc' = IF bfPc = "loop" THEN "done" ELSE bfPc
                 /\ UNCHANGED <<windows, curWin>>
    /\ UNCHANGED <<gStart, gEnd, gStep, now, chunkLog, artifacts, savedWindow,
                   upVars, fetchVars, pagVars>>

NextPlan ==
    /\ \/ plan_call
       \/ generator_next
    /\ UNCHANGED <<mgVars, scVars, dyVars, tgVars>>

SpecPlan == Init /\ [][NextPlan]_vars

(***************************************************************************)
(* The backfill driver, the __main__ block of                              *)
(* extract_historical_cashless.py.                                         *)
(***************************************************************************)
\* The locals of a pagination loop and of its fetcher after they returned
\* or raised.
DropPagination ==
    /\ pagMode' = "backfill"
    /\ pagPc' = "idle"
    /\ serverN' = 0
    /\ page' = 1
    /\ all_data' = <<>>
    /\ pagLog' = <<>>
    /\ attempt' = 0
    /\ fetchLog' = <<>>
    /\ fetchPc' = "idle"

\* A run starts: end = datetime.now(timezone.utc), which never goes back
\* from one run to the next.
start_run ==
    /\ bfPc \in {"idle", "done", "aborted"}
    /\ \E t \in NowRange : t >= now /\ now' = t
                           /\ NewGenerator(BACKFILL_START, t, STEP_DAYS)
    /\ bfPc' = "loop"
    /\ chunkLog' = <<>>
    /\ UNCHANGED <<curWin, artifacts, savedWindow, upVars, fetchVars, pagVars>>

\* "if os.path.exists(filename): continue"
chunk_skip ==
    /\ bfPc = "chunk"
    /\ FileExists(artifacts, curWin)
    /\ bfPc' = "loop"
    /\ chunkLog' = Append(chunkLog, "skipped")
    /\ UNCHANGED <<now, curWin, artifacts, savedWindow, upVars, fetchVars, pagVars, genVars>>

\* extract_range(start_date, end_date) is called on a window that holds n
\* records.
chunk_fetch ==
    /\ bfPc = "chunk"
    /\ ~FileExists(artifacts, curWin)
    /\ bfPc' = "fetching"
    /\ \E n \in RecordCounts : StartPagination("backfill", n)
    /\ UNCHANGED <<now, curWin, chunkLog, artifacts, savedWindow, upVars, genVars>>

\* extract_range has returned: save_data_as_csv, then time.sleep(1).
save_chunk ==
    /\ bfPc = "fetching"
    /\ pagPc = "returned"
    /\ artifacts' = save_data_as_csv(artifacts, all_data, curWin)
    /\ chunkLog' = chunkLog \o <<IF all_data = <<>> THEN "empty" ELSE "persisted",
                                 "sleep">>
    /\ bfPc' = "loop"
    /\ DropPagination
    /\ UNCHANGED <<now, curWin, upVars, genVars>>
    /\ savedWindow' = IF all_data = <<>> THEN savedWindow
                     ELSE [f \in DOMAIN savedWindow \cup {FileName(curWin)} |->
                             IF f = FileName(curWin) THEN curWin ELSE savedWindow[f]]

\* The fetcher has raised, with the exception caught around the chunk and
\* the loop going on to the next window.
run_skips_failed_chunk ==
    /\ bfPc = "fetching"
    /\ pagPc = "raised"
    /\ chunkLog' = Append(chunkLog, "failed")
    /\ bfPc' = "loop"
    /\ DropPagination
    /\ UNCHANGED <<now, curWin, artifacts, savedWindow, upVars, genVars>>

\* The fetcher has raised: nothing catches the exception and the run ends.
run_aborts ==
    /\ bfPc = "fetching"
    /\ pagPc = "raised"
    /\ chunkLog' = Append(chunkLog, "failed")
    /\ bfPc' = "aborted"
    /\ DropPagination
    /\ UNCHANGED <<now, curWin, artifacts, savedWindow, upVars, genVars>>

NextBackfill ==
    /\ \/ start_run
       \/ generator_next
       \/ chunk_skip
       \/ chunk_fetch
       \/ request_ok
       \/ request_fails
       \/ request_raises
       \/ save_chunk
       \/ run_aborts
    /\ UNCHANGED <<mgVars, scVars, dyVars, tgVars>>

SpecBackfill == Init /\ [][NextBackfill]_vars

(***************************************************************************)
(* Claims about generate_date_ranges, checked under SpecPlan.              *)
(***************************************************************************)
\* C9: the windows generate_date_ranges has yielded start at start, each
\* ends where the next starts, each is non-empty and at most step_days
\* long, all but the last are exactly step_days long, none ends after end,
\* there are no more of them than the range has room for, and once the
\* generator is exhausted the last one ends exactly at end; for start >= end
\* it yields nothing.
C9_WindowsPartitionRange ==
    /\ gStart >= gEnd => windows = <<>>
    /\ windows # <<>> =>
         /\ windows[1][1] = gStart
         /\ (Len(windows) - 1) * Days(gStep) < gEnd - gStart
    /\ \A i \in 1..Len(windows) :
         /\ windows[i][1] < windows[i][2]
         /\ windows[i][2] - windows[i][1] <= Days(gStep)
         /\ windows[i][2] <= gEnd
         /\ i < Len(windows) =>
              /\ windows[i][2] = windows[i + 1][1]
              /\ windows[i][2] - windows[i][1] = Days(gStep)
    /\ (genPc = "exhausted" /\ gStart < gEnd) =>
         /\ windows # <<>>
         /\ windows[Len(windows)][2] = gEnd

\* A range was cut into three windows, the last shorter than the step.
C9_Witness ==
    /\ genPc = "exhausted"
    /\ bfPc = "idle"
    /\ Len(windows) = 3
    /\ windows[3][2] - windows[3][1] < Days(gStep)

(***************************************************************************)
(* Claims about the backfill driver, checked under SpecBackfill.           *)
(***************************************************************************)
\* C10: a chunk whose artifact exists when the driver reaches it is skipped
\* with no request issued and nothing written; a pagination loop of a run
\* is only ever at work on a window that has no artifact; and no step of
\* any run, finished or aborted, removes or changes an artifact that exists.
C10_ArtifactsWriteOnce ==
    [][/\ \A f \in DOMAIN artifacts :
            f \in DOMAIN artifacts' /\ artifacts'[f] = artifacts[f]
       /\ (bfPc = "chunk" /\ FileName(curWin) \in DOMAIN artifacts)
            => /\ bfPc' = "loop"
               /\ chunkLog' = Append(chunkLog, "skipped")
               /\ UNCHANGED <<fetchVars, pagVars, artifacts>>
       /\ pagPc' = "running" => FileName(curWin') \notin DOMAIN artifacts'
      ]_vars

\* A run that followed an aborted or finished one has skipped its first
\* chunk, fetched and persisted its second, and ended.
C10_Witness ==
    /\ bfPc = "done"
    /\ chunkLog = <<"skipped", "persisted", "sleep">>
    /\ Cardinality(DOMAIN artifacts) >= 2

\* What became of the chunks of the run, without the sleeps of the driver.
IsChunkEntry(e) == e # "sleep"
ChunkOutcomes == SelectSeq(chunkLog, IsChunkEntry)

\* C11: a chunk that was not skipped and whose pagination returned has an
\* artifact named from its window once the driver has processed it,
\* whatever the number of records of the window; and when a run has ended
\* without error every window the planner yielded has an artifact.
C11_FetchedChunkPersisted ==
    [][/\ (bfPc = "fetching" /\ pagPc = "returned")
            => FileName(curWin) \in DOMAIN artifacts'
       /\ bfPc' = "done"
            => \A i \in 1..Len(windows') :
                  FileName(windows'[i]) \in DOMAIN artifacts'
      ]_vars

\* C12: the chunk whose fetch failed is the last chunk the run has reached:
\* the run is aborted, the planner has yielded no window after it, no
\* request is in progress, and the chunk has no artifact; the step that
\* ends the failed fetch, and every step after it until another run is
\* started, leaves all artifacts as they were.
C12_FetchFailureAbortsRun ==
    [][/\ (bfPc = "fetching" /\ pagPc = "raised")
            => /\ bfPc' = "aborted"
               /\ artifacts' = artifacts
       /\ (\E i \in 1..Len(chunkLog') : chunkLog'[i] = "failed")
            => /\ chunkLog'[Len(chunkLog')] = "failed"
               /\ \A i \in 1..(Len(chunkLog') - 1) : chunkLog'[i] # "failed"
               /\ bfPc' = "aborted"
               /\ pagPc' = "idle" /\ fetchPc' = "idle"
               /\ Len(windows') = Len(SelectSeq(chunkLog', IsChunkEntry))
               /\ curWin' = windows'[Len(windows')]
               /\ FileName(curWin') \notin DOMAIN artifacts'
       /\ bfPc = "aborted"
            => /\ artifacts' = artifacts
               /\ bfPc' = "loop" /\ chunkLog' = <<>> /\ windows' = <<>>
      ]_vars

\* A run has persisted its first chunk and aborted on its second, after
\* three failed requests.
C12_Witness ==
    /\ bfPc = "aborted"
    /\ chunkLog = <<"persisted", "sleep", "failed">>
    /\ Len(windows) = 2
    /\ Cardinality(DOMAIN artifacts) = 1

(***************************************************************************)
(* The consolidator, merge_cashless_facts_only.py.  A row of an artifact   *)
(* is its id and its occurred_at; in the combined frame it also carries    *)
(* its position, the index pd.concat(ignore_index=True) gives it, which    *)
(* stands for the rest of its values.                                      *)
(***************************************************************************)
\* An occurred_at cell: a timestamp, or NaN for a record that had no value
\* or a file that has no such column.
NaT == <<"nan", 0>>
Ts(t) == <<"ts", t>>
IsNaT(a) == a[1] = "nan"

RecordIds == {1, 2}
Timestamps == {Ts(10), Ts(12)}

\* The rows an artifact file can hold.
FileRows(has) ==
    {<<i, a>> : i \in RecordIds, a \in IF has THEN Timestamps \cup {NaT} ELSE {NaT}}

\* The artifact files of n rows: save_data_as_csv writes no file without
\* rows.
FilesOfLen(n) ==
    UNION {[has_at : {has}, rows : [1..n -> FileRows(has)]] : has \in BOOLEAN}

\* Two files in name order, of no more than MaxRows rows together.
FilePairs ==
    UNION {{<<f, g>> : f \in FilesOfLen(nm[1]), g \in FilesOfLen(nm[2])} :
              nm \in {x \in (1..MaxRows) \X (1..MaxRows) : x[1] + x[2] <= MaxRows}}

\* sorted(glob(...)): no file, one file, or two files.
ArtifactSets ==
    {<<>>} \cup UNION {{<<f>> : f \in FilesOfLen(n)} : n \in 1..MaxRows}
           \cup FilePairs

RECURSIVE ConcatRows(_, _)
\* pd.concat(df_list): the rows of the files from file i on, in order.
ConcatRows(files, i) ==
    IF i > Len(files) THEN <<>>
    ELSE files[i].rows \o ConcatRows(files, i + 1)

\* pd.concat(df_list, ignore_index=True)
Combined(files) ==
    [i \in 1..Len(ConcatRows(files, 1)) |->
        <<ConcatRows(files, 1)[i][1], ConcatRows(files, 1)[i][2], i>>]

\* "occurred_at" in combined.columns: the columns of the combined frame
\* are the union of the columns of the files.
HasOccurredAtColumn(files) == \E i \in 1..Len(files) : files[i].has_at

\* Whether row r may stand before row q after sort_values(by="occurred_at").
\* The rows with a value come first in ascending order, sorted with
\* kind="quicksort", the default, which keeps no order among equal values;
\* the rows without a value come last (na_position="last") in input order.
MayPrecede(r, q) ==
    IF IsNaT(r[2]) THEN IsNaT(q[2]) /\ r[3] < q[3]
    ELSE IsNaT(q[2]) \/ r[2][2] <= q[2][2]

\* The orders sort_values(by="occurred_at") can leave the rows in.
SortOrders(c) ==
    {[i \in 1..Len(c) |-> c[p[i]]] :
        p \in {q \in Permutations(1..Len(c)) :
                 \A i, j \in 1..Len(c) : i < j => MayPrecede(c[q[i]], c[q[j]])}}

\* drop_duplicates(subset=["transaction_id"], keep="last")
KeptLast(c, i) == \A j \in (i + 1)..Len(c) : c[j][1] # c[i][1]

RECURSIVE DropFrom(_, _)
DropFrom(c, i) ==
    IF i > Len(c) THEN <<>>
    ELSE (IF KeptLast(c, i) THEN <<c[i]>> ELSE <<>>) \o DropFrom(c, i + 1)

\* drop_duplicates that drops no row.
KeepAllRows(c) == c

drop_duplicates(c) == DropFrom(c, 1)

\* One run of the script on the artifact files found: pd.concat raises on
\* an empty list, the script raises when no file has the column, and
\* otherwise sorts, drops the duplicates and writes the output file.
consolidate ==
    /\ mgPc = "idle"
    /\ \E files \in ArtifactSets :
         /\ csv_files' = files
         /\ IF files = <<>> \/ ~HasOccurredAtColumn(files)
            THEN /\ mgPc' = "raised"
                 /\ UNCHANGED <<sortedRows, outExists, outRows, dropped>>
            ELSE \E srt \in SortOrders(Combined(files)) :
                 /\ sortedRows' = srt
                 /\ outExists' = TRUE
                 /\ outRows' = drop_duplicates(srt)
                 /\ dropped' = Len(srt) - Len(drop_duplicates(srt))
                 /\ mgPc' = "written"
    /\ UNCHANGED <<upVars, fetchVars, pagVars, genVars, bfVars>>

\* The script has ended; the model goes on with another set of artifacts
\* and no output file.
consolidator_exits ==
    /\ mgPc \in {"written", "raised"}
    /\ mgPc' = "idle"
    /\ csv_files' = <<>>
    /\ sortedRows' = <<>>
    /\ outExists' = FALSE
    /\ outRows' = <<>>
    /\ dropped' = 0
    /\ UNCHANGED <<upVars, fetchVars, pagVars, genVars, bfVars>>

NextConsolidate ==
    /\ \/ consolidate
       \/ consolidator_exits
    /\ UNCHANGED <<scVars, dyVars, tgVars>>

SpecConsolidate == Init /\ [][NextConsolidate]_vars

(***************************************************************************)
(* Claims about the consolidator, checked under SpecConsolidate.           *)
(***************************************************************************)
\* The rows of the artifacts read, and those of them with a given id.
InputRows == Combined(csv_files)
InputRowsOf(id) == {i \in 1..Len(InputRows) : InputRows[i][1] = id}
OutputRowsOf(id) == {i \in 1..Len(outRows) : outRows[i][1] = id}

\* occurred_at a is a maximum against b: b has no value, or both have one
\* and a's is not before b's.
NotBefore(a, b) == IsNaT(b) \/ (~IsNaT(a) /\ a[2] >= b[2])

\* C13: the output written holds exactly one row for every id of the
\* artifacts and no other id, each surviving row is a row of the
\* artifacts, and its occurred_at is the maximum among the rows of its id.
C13_OneRowPerIdMostRecent ==
    mgPc = "written"
    => /\ \A id \in RecordIds :
            Cardinality(OutputRowsOf(id)) = IF InputRowsOf(id) = {} THEN 0 ELSE 1
       /\ \A k \in 1..Len(outRows) :
            /\ \E i \in 1..Len(InputRows) : InputRows[i] = outRows[k]
            /\ \A i \in InputRowsOf(outRows[k][1]) :
                  NotBefore(outRows[k][2], InputRows[i][2])

\* C14: of the rows of one id with the same occurred_at as the surviving
\* row, the surviving row is the last in input order.
C14_TieKeepsLastInput ==
    mgPc = "written"
    => \A k \in 1..Len(outRows) :
          \A i \in InputRowsOf(outRows[k][1]) :
              InputRows[i][2] = outRows[k][2] => i <= outRows[k][3]

\* C15: a run on artifacts with a record that has no occurred_at raises
\* and writes no output; and no row without occurred_at survives in place
\* of a row of its id that has one.
C15_MissingRecencyIsFatal ==
    /\ (mgPc # "idle" /\ \E i \in 1..Len(InputRows) : IsNaT(InputRows[i][2]))
         => (mgPc = "raised" /\ ~outExists)
    /\ \A k \in 1..Len(outRows) :
         IsNaT(outRows[k][2])
         => \A i \in InputRowsOf(outRows[k][1]) : IsNaT(InputRows[i][2])

\* With occurred_at on every row of the artifacts, the surviving row of an
\* id is a most recent one.
MostRecentWhenAllPresent ==
    (mgPc = "written" /\ \A i \in 1..Len(InputRows) : ~IsNaT(InputRows[i][2]))
    => \A k \in 1..Len(outRows) :
          \A i \in InputRowsOf(outRows[k][1]) :
              InputRows[i][2][2] <= outRows[k][2][2]

(***************************************************************************)
(* The schema builders put to columns under every configuration.           *)
(***************************************************************************)
\* The columns of the frames and the configurations of the table: any
\* column can be listed in any of the string, date and numeric sets.
SchemaColumns == {TransactionId, ValueCol}

\* A schema is built for a column of a frame: build_bq_schema_cf reads the
\* three configurations, build_bq_schema the string and numeric ones.
build_schema ==
    \E b \in {"cf", "local"}, col \in SchemaColumns, c \in Contents,
       strings \in SUBSET SchemaColumns, numerics \in SUBSET SchemaColumns,
       dates \in SUBSET SchemaColumns :
        /\ b = "local" => dates = {}
        /\ scBuilder' = b
        /\ scColumn' = col
        /\ scStrings' = strings
        /\ scDates' = dates
        /\ scNumerics' = numerics
        /\ scContent' = c
        /\ scType' = IF b = "cf"
                     THEN build_bq_schema_cf(col, strings, dates, numerics, c)
                     ELSE build_bq_schema(col, strings, numerics, c)
        /\ UNCHANGED <<upVars, fetchVars, pagVars, genVars, bfVars, mgVars, dyVars, tgVars>>

NextSchema == build_schema

SpecSchema == Init /\ [][NextSchema]_vars

\* C16: a column listed in the string set of its table is typed STRING by
\* either builder, whatever its content and whether or not it is also
\* listed in the date or numeric configuration.
C16_StringOverrideFirst ==
    (scBuilder # "none" /\ scColumn \in scStrings) => scType = "STRING"

\* build_bq_schema_cf has typed STRING an int64 column that is listed in the
\* string set and also in the date and numeric configurations.
C16_Witness ==
    /\ scBuilder = "cf"
    /\ scColumn \in scStrings /\ scColumn \in scNumerics /\ scColumn \in scDates
    /\ scContent = <<"int64", "">>
    /\ scType = "STRING"

(***************************************************************************)
(* The daily run: run of main.py calling main of daily_fetch.py.  The      *)
(* primary fetch is the "daily" pagination loop; an upsert is taken by     *)
(* its outcome, returning or raising.                                      *)
(***************************************************************************)
\* The auxiliary tables, in the order of the loop of main.
AUX_TABLES == <<"categories", "clients", "locations", "manufacturers", "products">>

\* What the request can carry: no date, a date (a day number), a date
\* string that datetime.fromisoformat rejects, or a JSON body that is not
\* an object.
RequestDates == {DateOf(FirstNow) - 3}
Requests ==
    {<<"none", 0>>, <<"invalid", 0>>, <<"notdict", 0>>}
    \cup {<<"date", d>> : d \in RequestDates}

\* start: datetime.fromisoformat(date_arg).replace(tzinfo=timezone.utc), or
\* datetime.now(timezone.utc) - timedelta(days=1) without a date.
DailyStart(req, t) == IF req[1] = "date" THEN Days(req[2]) ELSE t - Days(1)

\* end = start + timedelta(days=1)
DailyEnd(start) == start + Days(1)

\* The entry point is invoked at clock reading t: it reads the date of the
\* request and calls main, which computes the window and starts fetching.
run ==
    /\ dyPc \in {"idle", "main_returned", "main_raised", "main_not_called"}
    /\ PagEnded
    /\ \E req \in Requests, t \in NowRange :
         /\ date_arg' = req
         /\ dyNow' = t
         /\ dyLog' = <<>>
         /\ auxIdx' = 0
         /\ IF req[1] = "notdict"
            THEN /\ dyPc' = "main_not_called"
                 /\ runStatus' = 500
                 /\ dyStart' = 0 /\ dyEnd' = 0
                 /\ UNCHANGED <<fetchVars, pagVars>>
            ELSE IF req[1] = "invalid"
            THEN /\ dyPc' = "main_raised"
                 /\ runStatus' = 500
                 /\ dyStart' = 0 /\ dyEnd' = 0
                 /\ UNCHANGED <<fetchVars, pagVars>>
            ELSE /\ dyPc' = "fetching"
                 /\ runStatus' = 0
                 /\ dyStart' = DailyStart(req, t)
                 /\ dyEnd' = DailyEnd(DailyStart(req, t))
                 /\ \E n \in RecordCounts : StartPagination("daily", n)
    /\ UNCHANGED <<upVars, genVars, bfVars, mgVars, scVars, tgVars>>

\* The primary fetch with its failure caught in main and the run going on
\* to the auxiliary tables.
primary_fetch_failure_swallowed ==
    /\ dyPc = "fetching"
    /\ pagPc = "raised"
    /\ dyLog' = Append(dyLog, <<"cashless", "fetch_failed">>)
    /\ dyPc' = "aux"
    /\ DropPagination
    /\ UNCHANGED <<date_arg, dyNow, dyStart, dyEnd, auxIdx, runStatus,
                   upVars, genVars, bfVars, mgVars, scVars, tgVars>>

\* fetch_cashless_data has raised: main reports, re-raises, and run returns
\* 500.
primary_fetch_failed ==
    /\ dyPc = "fetching"
    /\ pagPc = "raised"
    /\ dyLog' = Append(dyLog, <<"cashless", "fetch_failed">>)
    /\ dyPc' = "main_raised"
    /\ runStatus' = 500
    /\ DropPagination
    /\ UNCHANGED <<date_arg, dyNow, dyStart, dyEnd, auxIdx,
                   upVars, genVars, bfVars, mgVars, scVars, tgVars>>

\* fetch_cashless_data has returned: "if cashless_data" the frame is
\* upserted, and an upsert that raises ends main and the run with 500.
primary_upsert ==
    /\ dyPc = "fetching"
    /\ pagPc = "returned"
    /\ \E outcome \in IF all_data = <<>> THEN {"no_data"} ELSE {"ok", "upsert_failed"} :
         /\ dyLog' = Append(dyLog, <<"cashless", outcome>>)
         /\ IF outcome = "upsert_failed"
            THEN dyPc' = "main_raised" /\ runStatus' = 500
            ELSE dyPc' = "aux" /\ runStatus' = runStatus
    /\ DropPagination
    /\ UNCHANGED <<date_arg, dyNow, dyStart, dyEnd, auxIdx,
                   upVars, genVars, bfVars, mgVars, scVars, tgVars>>

\* update_aux_table without its try/except: a failure ends main.
update_aux_table_uncaught ==
    /\ dyPc = "aux"
    /\ auxIdx < Len(AUX_TABLES)
    /\ \E outcome \in {"ok", "fetch_failed", "upsert_failed"} :
         /\ dyLog' = Append(dyLog, <<AUX_TABLES[auxIdx + 1], outcome>>)
         /\ IF outcome = "ok"
            THEN dyPc' = "aux" /\ runStatus' = runStatus
            ELSE dyPc' = "main_raised" /\ runStatus' = 500
    /\ auxIdx' = auxIdx + 1
    /\ UNCHANGED <<date_arg, dyNow, dyStart, dyEnd,
                   upVars, fetchVars, pagVars, genVars, bfVars, mgVars, scVars, tgVars>>

\* update_aux_table(table) for the next table of the loop: the fetch or the
\* upsert may raise, and "except Exception" reports it and returns.
update_aux_table ==
    /\ dyPc = "aux"
    /\ auxIdx < Len(AUX_TABLES)
    /\ \E outcome \in {"ok", "fetch_failed", "upsert_failed"} :
         dyLog' = Append(dyLog, <<AUX_TABLES[auxIdx + 1], outcome>>)
    /\ auxIdx' = auxIdx + 1
    /\ UNCHANGED <<dyPc, date_arg, dyNow, dyStart, dyEnd, runStatus,
                   upVars, fetchVars, pagVars, genVars, bfVars, mgVars, scVars, tgVars>>

\* The loop over the auxiliary tables is over: main returns and run
\* returns 200.
main_returns ==
    /\ dyPc = "aux"
    /\ auxIdx = Len(AUX_TABLES)
    /\ dyPc' = "main_returned"
    /\ runStatus' = 200
    /\ UNCHANGED <<date_arg, dyNow, dyStart, dyEnd, auxIdx, dyLog,
                   upVars, fetchVars, pagVars, genVars, bfVars, mgVars, scVars, tgVars>>

NextDaily ==
    \/ run
    \/ (request_ok /\ UNCHANGED <<mgVars, scVars, dyVars, tgVars>>)
    \/ (endpoint_request_fails /\ UNCHANGED <<mgVars, scVars, dyVars, tgVars>>)
    \/ primary_fetch_failed
    \/ primary_upsert
    \/ update_aux_table
    \/ main_returns

SpecDaily == Init /\ [][NextDaily]_vars

(***************************************************************************)
(* Claims about the daily run, checked under SpecDaily.                    *)
(***************************************************************************)
\* main has computed its window.
WindowComputed ==
    /\ dyPc \in {"fetching", "aux", "main_returned", "main_raised"}
    /\ date_arg[1] \in {"none", "date"}

\* The entries of the log for the auxiliary tables, and their names.
IsAuxEntry(e) == e[1] # "cashless"
AuxEntries == SelectSeq(dyLog, IsAuxEntry)
AuxNames == [i \in 1..Len(AuxEntries) |-> AuxEntries[i][1]]

\* C17: without a date the window runs from midnight of the day before the
\* run to midnight of the day of the run, whatever the time of day; with a
\* date it runs from that date to one day later.
C17_DailyWindowMidnightAligned ==
    WindowComputed
    => /\ date_arg[1] = "none"
            => /\ dyStart = Days(DateOf(dyNow) - 1)
               /\ dyEnd = Days(DateOf(dyNow))
       /\ date_arg[1] = "date"
            => /\ dyStart = Days(date_arg[2])
               /\ dyEnd = Days(date_arg[2] + 1)

\* C18: once the primary sync has succeeded, the auxiliary tables attempted
\* so far are the first ones of the list, in its order and each once,
\* whatever their outcomes; no step makes main raise; and main returns,
\* with status 200, only after all five were attempted.
C18_AuxFailuresIsolated ==
    [][/\ dyPc = "aux" => dyPc' \in {"aux", "main_returned"}
       /\ dyPc' \in {"aux", "main_returned"}
            => /\ AuxNames' = SubSeq(AUX_TABLES, 1, auxIdx')
               /\ dyLog'[1][1] = "cashless"
               /\ dyLog'[1][2] \in {"ok", "no_data"}
       /\ dyPc' = "main_returned"
            => /\ AuxNames' = AUX_TABLES
               /\ runStatus' = 200
      ]_vars

\* A run has returned 200 after the upsert of the first auxiliary table and
\* the fetch of the third failed.
C18_Witness ==
    /\ dyPc = "main_returned"
    /\ runStatus = 200
    /\ Len(dyLog) = 6
    /\ dyLog[2] = <<"categories", "upsert_failed">>
    /\ dyLog[4] = <<"locations", "fetch_failed">>
    /\ dyLog[6] = <<"products", "ok">>

\* C19: a primary sync that failed, in its fetch or in its upsert, is the
\* last thing the run did: main has raised, no auxiliary table was
\* attempted, and run has returned 500; and run has returned 200 exactly
\* when main has returned.
C19_PrimaryFailurePropagates ==
    /\ (\E i \in 1..Len(dyLog) :
           dyLog[i] \in {<<"cashless", "fetch_failed">>, <<"cashless", "upsert_failed">>})
         => /\ Len(dyLog) = 1
            /\ dyPc = "main_raised"
            /\ runStatus = 500
    /\ (runStatus = 200) <=> (dyPc = "main_returned")
    /\ dyPc \in {"main_raised", "main_not_called"} => runStatus = 500

\* The primary fetch has failed and the run has returned 500 with no
\* auxiliary table attempted.
C19_Witness ==
    /\ dyLog = <<<<"cashless", "fetch_failed">>>>
    /\ dyPc = "main_raised"
    /\ runStatus = 500

\* C20: a page request of the daily run that fails transiently is made
\* again: the fetcher of the daily pagination loop raises only after 3
\* requests that failed.
C20_DailyFetchRetriesTransient ==
    (pagMode = "daily" /\ pagPc = "raised" /\ AllTransient(fetchLog))
    => Len(Gets(fetchLog)) = MAX_ATTEMPTS

(***************************************************************************)
(* The effect of a MERGE on the final table, checked under SpecUpsert.     *)
(***************************************************************************)
\* The id of final row t equals the id of batch row s.
SameId(t, s) ==
    /\ t[SanitizeName(IdColumnArg)] # Null
    /\ t[SanitizeName(IdColumnArg)] = s[SanitizeName(IdColumnArg)]

\* Final row t with every non-id column of batch row s set to s's value.
Overwritten(t, s) ==
    [c \in DOMAIN t |->
        IF c \in DOMAIN s /\ c # SanitizeName(IdColumnArg) THEN s[c] ELSE t[c]]

\* The batch rows whose id matches no row of table T, each as many times
\* as the batch holds it.
Unmatched(T, S) ==
    [s \in {x \in BagToSet(S) : \A t \in BagToSet(T) : ~SameId(t, x)} |-> S[s]]

\* C22: a call whose MERGE succeeded leaves in the final table, for every
\* row that was there, the row itself when no batch row has its id and the
\* row overwritten from the batch row of its id otherwise; every batch row
\* that matched no final row; and nothing else: the table has grown by
\* exactly the unmatched batch rows, so no row was deleted.
C22_MergeFrameEffect ==
    [][upPc' = "returned"
         => /\ \A t \in BagToSet(finalRows) :
                 IF \E s \in BagToSet(RowsOf(df')) : SameId(t, s)
                 THEN \E s \in BagToSet(RowsOf(df')) :
                         SameId(t, s) /\ BagIn(Overwritten(t, s), finalRows')
                 ELSE CopiesIn(t, finalRows') >= CopiesIn(t, finalRows)
            /\ \A s \in BagToSet(Unmatched(finalRows, RowsOf(df'))) :
                 CopiesIn(s, finalRows') >= CopiesIn(s, RowsOf(df'))
            /\ \A u \in BagToSet(finalRows') :
                 \/ BagIn(u, Unmatched(finalRows, RowsOf(df')))
                 \/ \E t \in BagToSet(finalRows) :
                       \/ u = t /\ \A s \in BagToSet(RowsOf(df')) : ~SameId(t, s)
                       \/ \E s \in BagToSet(RowsOf(df')) :
                             SameId(t, s) /\ u = Overwritten(t, s)
            /\ BagCardinality(finalRows') =
                 BagCardinality(finalRows)
                 + BagCardinality(Unmatched(finalRows, RowsOf(df')))
      ]_vars

\* A one-row batch of id 7 was merged into a final table that keeps two
\* rows, the one of the empty id with another value than the batch row's.
C22_Witness ==
    /\ upPc = "returned"
    /\ ~repeated
    /\ Len(df.rows) = 1
    /\ df.rows[1][1] = StrV("7")
    /\ BagCardinality(finalRows) = 2
    /\ \E t \in BagToSet(finalRows) :
          t[SanitizeName(IdColumnArg)] = StrV("") /\ t[ValueCol] # df.rows[1][2]

(***************************************************************************)
(* Further claims about the page fetcher and the pagination loops,         *)
(* checked under SpecPaginate.                                             *)
(***************************************************************************)
\* Every request of the log that failed, failed transiently.
FailuresTransient(log) ==
    \A i \in 1..Len(log) :
        (IsGet(log[i]) /\ log[i][2] # "ok") => log[i][2] = "transient"

\* C28: a call of the backfill fetcher that has returned after transient
\* failures only has issued k <= 3 requests, the first k-1 each followed by
\* its sleep of 1 and then 2 seconds, the k-th answered; and in no call of
\* the fetcher is a request issued after an answered one.
C28_SuccessAfterRetries ==
    /\ (pagMode = "backfill" /\ fetchPc = "returned" /\ FailuresTransient(fetchLog))
         => \E k \in 1..3 :
               fetchLog = SubSeq(ExhaustedLog, 1, 2 * (k - 1)) \o <<GetEvent("ok")>>
    /\ \A i \in 1..Len(fetchLog) :
         fetchLog[i] = GetEvent("ok") => i = Len(fetchLog)

\* The backfill fetcher has returned a page on its third attempt.
C28_Witness ==
    /\ pagMode = "backfill"
    /\ fetchPc = "returned"
    /\ fetchLog = <<GetEvent("transient"), SleepEvent(1),
                    GetEvent("transient"), SleepEvent(2), GetEvent("ok")>>

\* C29: in each pagination loop a page handed to the loop that is not its
\* last is followed by the inter-page delay before the next page is
\* requested, a delay is only taken after a full page, and a loop that has
\* returned took no delay after its last page.
C29_DelayBetweenPages ==
    /\ \A i \in 1..(Len(pagLog) - 1) :
         IsPage(pagLog[i]) => pagLog[i + 1] = SleepEvent(PAGE_DELAY)
    /\ \A i \in 1..Len(pagLog) :
         IsSleep(pagLog[i])
         => i > 1 /\ IsPage(pagLog[i - 1]) /\ pagLog[i - 1][4] = PER_PAGE
    /\ pagPc = "returned" => IsPage(pagLog[Len(pagLog)])

\* The same for the loops that sleep, extract_range and the daily
\* fetch_cashless_data.
DelayBetweenPagesWhereSlept == pagMode # "cli" => C29_DelayBetweenPages

\* In the backfill driver every chunk that was fetched is followed by the
\* delay of the driver.  Checked under SpecBackfill.
DelayAfterFetchedChunk ==
    \A i \in 1..Len(chunkLog) :
        chunkLog[i] \in {"persisted", "empty"}
        => i < Len(chunkLog) /\ chunkLog[i + 1] = "sleep"

(***************************************************************************)
(* The artifact names and the windows, checked under SpecBackfill.         *)
(***************************************************************************)
\* C30: a window the driver finds an artifact for, and so skips, is the
\* very window whose records that artifact holds: no artifact written for
\* a window of other bounds answers to its name.
C30_SkipOnlyOwnArtifact ==
    (bfPc = "chunk" /\ FileExists(artifacts, curWin))
    => savedWindow[FileName(curWin)] = curWin

(***************************************************************************)
(* Preprocessing and schema of the upsert.                                 *)
(***************************************************************************)
\* A call of the upsert that got as far as loading the staging table.
Staged == upPc # "idle" /\ "load" \in Range(upOps)

\* The cells of column col of frame d.
CellsOf(d, col) ==
    IF HasColumn(d, col)
    THEN {d.rows[r][ColumnIndex(d, col)] : r \in 1..Len(d.rows)}
    ELSE {}

\* C21: in the batch that is staged, every value of a column the
\* configuration designates as a string column is a string, a missing
\* value being the empty string: no such cell is null, in the frame or in
\* the staging table loaded from it.
C21_StringColumnsNeverNull ==
    Staged =>
        \A col \in TABLE_STRING_COLUMNS_CF :
            /\ \A v \in CellsOf(df, col) : v[1] = "str"
            /\ \A t \in BagToSet(tempRows) \cup BagToSet(RowsOf(df)) :
                 col \in DOMAIN t => t[col][1] = "str"

\* A staged batch whose id was missing in a row holds the empty string
\* there.
C21_Witness ==
    /\ Staged
    /\ Null \in CellsOf(sanitize_columns(rawDf), TransactionId)
    /\ StrV("") \in CellsOf(df, TransactionId)
    /\ Null \notin CellsOf(df, TransactionId)

\* The operations of the call that has just been made.
ReachedEnsureTable == "get_table" \in Range(upOps)
CreatedTable == "create_table" \in Range(upOps)

\* C23: a call that reaches the ensure-table step creates the final table
\* exactly when the table does not exist, with the schema inferred from the
\* batch of the call; a table that exists keeps its schema through every
\* later call, whatever the schema of the batch.
C23_TableCreatedIffAbsent ==
    [][/\ ReachedEnsureTable' =>
            /\ CreatedTable' <=> ~finalExists
            /\ CreatedTable' => finalSchema' = SchemaOf(df')
            /\ finalExists'
       /\ finalExists => finalExists' /\ finalSchema' = finalSchema]_vars

\* A call found the table with an INTEGER value column, inferred FLOAT for
\* the column from its batch, and did not create the table.
C23_Witness ==
    /\ upPc # "idle"
    /\ ReachedEnsureTable
    /\ ~CreatedTable
    /\ finalSchema[ValueCol] = "INTEGER"
    /\ SchemaOf(df)[ValueCol] = "FLOAT"

\* The cell of column col in row r of the batch the call was given.
RawCell(r, col) ==
    rawDf.rows[r][ColumnIndex(sanitize_columns(rawDf), col)]

\* The cell of column col in row r of the preprocessed frame.
Cell(r, col) == df.rows[r][ColumnIndex(df, col)]

\* The value is present and is no date, or no number.
FailsDate(v) == v # Null /\ ToDatetime(v) = Null
FailsNumeric(v) == v # Null /\ v[1] \notin {"int", "float"}

\* A call on a batch that has the value and the time columns.
TypedCall ==
    /\ upPc # "idle"
    /\ HasColumn(df, ValueCol)
    /\ HasColumn(df, OccurredAt)

\* C24: a column of the date set or of the numeric set with a value that
\* fails to coerce is given the type STRING in the schema of the batch.
C24_FailedCoercionTypedString ==
    TypedCall =>
        /\ (\E r \in 1..Len(rawDf.rows) : FailsDate(RawCell(r, OccurredAt)))
             => SchemaOf(df)[OccurredAt] = "STRING"
        /\ (\E r \in 1..Len(rawDf.rows) : FailsNumeric(RawCell(r, ValueCol)))
             => SchemaOf(df)[ValueCol] = "STRING"

\* What the code does with such a column: the date column stays TIMESTAMP
\* and the numeric column becomes FLOAT.
FailedCoercionKeepsDeclaredType ==
    TypedCall =>
        /\ (\E r \in 1..Len(rawDf.rows) : FailsDate(RawCell(r, OccurredAt)))
             => SchemaOf(df)[OccurredAt] = "TIMESTAMP"
        /\ (\E r \in 1..Len(rawDf.rows) : FailsNumeric(RawCell(r, ValueCol)))
             => SchemaOf(df)[ValueCol] = "FLOAT"

\* The values of the value column that are present in the batch.
PresentValues ==
    {RawCell(r, ValueCol) : r \in 1..Len(rawDf.rows)} \ {Null}

\* C25: the numeric column is INTEGER when every present value is a whole
\* number, rows without a value notwithstanding, and FLOAT when the
\* present values are numbers and one of them is fractional.
C25_IntegerWhenAllPresentWhole ==
    TypedCall =>
        /\ (PresentValues # {} /\ \A v \in PresentValues : v[1] = "int")
             => SchemaOf(df)[ValueCol] = "INTEGER"
        /\ (/\ \A v \in PresentValues : v[1] \in {"int", "float"}
            /\ \E v \in PresentValues : v[1] = "float")
             => SchemaOf(df)[ValueCol] = "FLOAT"

\* What the code does: INTEGER only when no row lacks the value.
IntegerOnlyWhenNoneMissing ==
    TypedCall =>
        (SchemaOf(df)[ValueCol] = "INTEGER"
            <=> \A r \in 1..Len(rawDf.rows) : RawCell(r, ValueCol)[1] = "int")

\* C26: an invalid value of the date column becomes a null timestamp and
\* an invalid value of the numeric column becomes null; the frame keeps its
\* rows and columns, a valid date is its timestamp, a number or a missing
\* value is as it was, the id is its string; and the call goes on to load
\* the staging table and run the MERGE.
C26_InvalidValuesBecomeNull ==
    TypedCall =>
        /\ df.columns = sanitize_columns(rawDf).columns
        /\ Len(df.rows) = Len(rawDf.rows)
        /\ \A r \in 1..Len(rawDf.rows) :
             /\ Cell(r, OccurredAt) =
                  IF FailsDate(RawCell(r, OccurredAt)) THEN Null
                  ELSE ToDatetime(RawCell(r, OccurredAt))
             /\ Cell(r, ValueCol) =
                  IF FailsNumeric(RawCell(r, ValueCol)) THEN Null
                  ELSE RawCell(r, ValueCol)
             /\ Cell(r, TransactionId) = FillnaAstypeStr(RawCell(r, TransactionId))
        /\ {"load", "merge"} \subseteq Range(upOps)
        /\ upErr \in {"none", "MergeError"}

\* A call returned on a batch of two records, one with a value that is no
\* number and a time that is no date, the other with a whole value and a
\* valid time: the first has nulls there, the second its value and its
\* timestamp.
C26_Witness ==
    /\ TypedCall
    /\ upPc = "returned"
    /\ Len(rawDf.rows) = 2
    /\ \E r, q \in 1..Len(rawDf.rows) :
         /\ FailsDate(RawCell(r, OccurredAt))
         /\ FailsNumeric(RawCell(r, ValueCol))
         /\ Cell(r, OccurredAt) = Null
         /\ Cell(r, ValueCol) = Null
         /\ Cell(q, ValueCol) = IntV("1")
         /\ Cell(q, OccurredAt)[1] = "ts"

(***************************************************************************)
(* Steps 3 and 4 of the upsert on a cell of the columns tags and           *)
(* additional_barcodes.  A string is the sequence of its characters, so    *)
(* that str() of a list and ", ".join of its items are computed.  An item  *)
(* of a list is a pair: <<"s", x>> the string x, <<"none", "">> None,      *)
(* <<"dict_value", x>> the dict {"value": x}, <<"dict_null", "">> the dict *)
(* {"value": None}, <<"dict_other", "">> the dict {}.                      *)
(***************************************************************************)
\* The tables whose string set has the two columns, and one that has not.
StringColumnsOf(table) ==
    IF table = "products" THEN {"tags", "additional_barcodes"} ELSE {}

TagItems == {<<"s", "a">>, <<"s", "b">>, <<"none", "">>}
BarcodeItems == {<<"dict_value", "1">>, <<"dict_null", "">>, <<"dict_other", "">>}

ItemsOf(column) == IF column = "tags" THEN TagItems ELSE BarcodeItems

\* The cells the API gives for a column: no value, a plain string, a list.
RawCells(column) ==
    {NullCell, StrCell(<<"a">>)}
        \cup {ListCell(l) : l \in UNION {[1..n -> ItemsOf(column)] : n \in 0..MaxItems}}

\* repr() of an item, as str() of a list shows it.
Repr(e) ==
    CASE e[1] = "s" -> <<"'", e[2], "'">>
      [] e[1] = "none" -> <<"N", "o", "n", "e">>
      [] e[1] = "dict_value" ->
            <<"{", "'", "v", "a", "l", "u", "e", "'", ":", " ", "'", e[2], "'", "}">>
      [] e[1] = "dict_null" ->
            <<"{", "'", "v", "a", "l", "u", "e", "'", ":", " ", "N", "o", "n", "e", "}">>
      [] OTHER -> <<"{", "}">>

RECURSIVE JoinReprs(_)
\* ", ".join of the repr() of the items.
JoinReprs(l) ==
    IF l = <<>> THEN <<>>
    ELSE IF Len(l) = 1 THEN Repr(l[1])
    ELSE Repr(l[1]) \o <<",", " ">> \o JoinReprs(Tail(l))

\* str() of a list.
StrOfList(l) == <<"[">> \o JoinReprs(l) \o <<"]">>

RECURSIVE Join(_)
\* ", ".join of a list of strings.
Join(ss) ==
    IF ss = <<>> THEN <<>>
    ELSE IF Len(ss) = 1 THEN ss[1]
    ELSE ss[1] \o <<",", " ">> \o Join(Tail(ss))

\* [str(tag) for tag in x if tag is not None]
TagStrings(l) ==
    LET kept == SelectSeq(l, LAMBDA e : e[1] # "none")
    IN  [i \in 1..Len(kept) |-> <<kept[i][2]>>]

\* [str(item["value"]) for item in x if isinstance(item, dict)
\*     and "value" in item and item["value"] is not None]
BarcodeValues(l) ==
    LET kept == SelectSeq(l, LAMBDA e : e[1] = "dict_value")
    IN  [i \in 1..Len(kept) |-> <<kept[i][2]>>]

\* Step 3 on one cell: fillna("").astype(str).
AstypeStr(c) ==
    CASE c.kind = "null" -> StrCell(<<>>)
      [] c.kind = "str" -> c
      [] OTHER -> StrCell(StrOfList(c.items))

\* Step 4 on one cell of the column.
NormalizeCell(column, c) ==
    CASE c.kind = "list" ->
            StrCell(Join(IF column = "tags" THEN TagStrings(c.items)
                                             ELSE BarcodeValues(c.items)))
      [] c.kind = "str" -> c
      [] OTHER -> StrCell(<<>>)

\* Steps 3 and 4 in the order of the code, for a column of the string set
\* of the table; any other column is left as it is.
PreprocessCell(table, column, c) ==
    IF column \in StringColumnsOf(table)
    THEN NormalizeCell(column, AstypeStr(c))
    ELSE c

\* A cell of one of the two columns is put through the preprocessing.
preprocess_cell ==
    \E table \in {"products", "cashless"}, column \in {"tags", "additional_barcodes"} :
        \E c \in RawCells(column) :
            /\ tgPc' = "done"
            /\ tgTable' = table
            /\ tgColumn' = column
            /\ tgRaw' = c
            /\ tgOut' = PreprocessCell(table, column, c)

NextTags ==
    /\ preprocess_cell
    /\ UNCHANGED <<upVars, fetchVars, pagVars, genVars, bfVars, mgVars, scVars, dyVars>>

SpecTags == Init /\ [][NextTags]_vars

\* C27: for the products table, a list of tags is loaded as the strings of
\* its elements other than None joined by ", ", a list of barcodes as the
\* "value" entries of its items joined likewise, and a missing value as the
\* empty string.
C27_ListsJoined ==
    (tgPc = "done" /\ tgTable = "products") =>
        /\ tgRaw.kind = "list" => tgOut = NormalizeCell(tgColumn, tgRaw)
        /\ tgRaw.kind = "null" => tgOut = StrCell(<<>>)

\* What the code loads for a list: str() of the list.
ListLoadedAsItsStr ==
    (tgPc = "done" /\ tgTable = "products" /\ tgRaw.kind = "list") =>
        tgOut = StrCell(StrOfList(tgRaw.items))

(***************************************************************************)
(* The duplicate count of the consolidator.                                *)
(***************************************************************************)
\* The ids among the rows of the artifacts.
DistinctIds == {InputRows[i][1] : i \in 1..Len(InputRows)}

\* C31: the count of dropped duplicates the consolidator prints is the
\* number of rows of all the artifacts less the number of distinct ids
\* among them, and is the number of those rows less the number of rows of
\* the output.
C31_DroppedCountIsRowsLessIds ==
    mgPc = "written"
    => /\ dropped = Len(InputRows) - Cardinality(DistinctIds)
       /\ dropped = Len(InputRows) - Len(outRows)

\* A run on two artifacts of three rows together, all of one id, printed
\* two dropped duplicates and wrote one row.
C31_Witness ==
    /\ mgPc = "written"
    /\ Len(csv_files) = 2
    /\ Len(InputRows) = 3
    /\ Cardinality(DistinctIds) = 1
    /\ dropped = 2
    /\ Len(outRows) = 1

=============================================================================
